---- MODULE Spec2Model ----
(***************************************************************************)
(* Model of mediaflow_proxy/utils/cache_utils.py: the bounded LRU store    *)
(* (LRUMemoryCache) and the two-tier HybridCache built on it.              *)
(*                                                                         *)
(* SpecLRU drives one LRUMemoryCache through get/set/remove calls.          *)
(* Spec drives one HybridCache from several cooperative tasks; every       *)
(* `await` of the source is a separate step, so that tasks interleave at   *)
(* exactly the suspension points of the code.                              *)
(*                                                                         *)
(* CacheEntry.last_access and the "last_access" metadata field are written *)
(* but never read by the code; they are left out of the state.             *)
(***************************************************************************)
EXTENDS Integers, Sequences, FiniteSets, TLC

\* ---------------------------------------------------------------- bounds
MaxSize == 2          \* LRUMemoryCache.maxsize (bytes)
MaxTime == 2          \* the clock runs over 0..MaxTime
DefaultTtl == 1       \* HybridCache.ttl
MaxAccess == 2        \* cap on CacheEntry.access_count
MaxCalls == 2         \* cap on the number of HybridCache calls

\* ------------------------------------------------------------ value sets
LogicalKeys == {"K1", "K2"}
Hashes == {"h1", "h2"}
Tasks == {"t1", "t2"}
NoTask == "none"
\* byte payloads; no payload is a prefix of another one
Payloads == {<<"a">>, <<"b", "b">>}
TtlArgs == {0, 1}     \* the ttl argument of set: 0 stands for None

VARIABLES
    cache,          \* LRUMemoryCache._cache: <<[key, entry]>>, least recent first
    current_size,   \* LRUMemoryCache._current_size
    now,            \* time.time()
    lruCall,        \* the last call made on the store in SpecLRU
    lruRet,         \* and what it returned
    dir,            \* cache_dir: path -> inode (0: no such file)
    inodes,         \* inode -> file content, a sequence of cells
    task,           \* per task: position in get/set/delete and its locals
    budget,         \* number of cache calls that may still start
    settled,        \* per logical key: the last set that completed undisturbed,
                    \* or the empty download a facade call returned uncached
    event,          \* what the last step did, for the properties
    hlsIn,          \* the request and the parsed manifest handed to the translator
    hlsOut          \* what the translator returned for it

lruVars == <<cache, current_size>>
lruGhost == <<lruCall, lruRet>>
fsVars == <<dir, inodes>>
hlsVars == <<hlsIn, hlsOut>>
vars == <<cache, current_size, now, lruCall, lruRet, dir, inodes, task,
          budget, settled, event, hlsIn, hlsOut>>

\* ======================================================= LRUMemoryCache
CacheEntry(data, expires_at, access_count) ==
    [data |-> data, expires_at |-> expires_at,
     access_count |-> access_count, size |-> Len(data)]

NoEntry == [kind |-> "none"]
SomeEntry(e) == [kind |-> "entry", entry |-> e]

KeysOf(c) == {c[i].key : i \in DOMAIN c}
IndexOf(c, key) == CHOOSE i \in DOMAIN c : c[i].key = key
EntryOf(c, key) == c[IndexOf(c, key)].entry
RemoveAt(c, i) == SubSeq(c, 1, i - 1) \o SubSeq(c, i + 1, Len(c))
Pop(c, key) == RemoveAt(c, IndexOf(c, key))
SumSizes(c) ==
    LET RECURSIVE Sum(_)
        Sum(i) == IF i = 0 THEN 0 ELSE c[i].entry.size + Sum(i - 1)
    IN Sum(Len(c))

\* OrderedDict.__setitem__: an existing key keeps its position
SetItem(c, key, entry) ==
    IF key \in KeysOf(c)
    THEN [c EXCEPT ![IndexOf(c, key)] = [key |-> key, entry |-> entry]]
    ELSE Append(c, [key |-> key, entry |-> entry])

\* a get that forgets the size of the expired entry it drops
LRUGetKeepsSize(c, size, key, t) ==
    IF key \in KeysOf(c)
    THEN LET entry == EntryOf(c, key)
             rest == Pop(c, key)
         IN IF t < entry.expires_at
            THEN LET hit == [entry EXCEPT !.access_count = @ + 1]
                 IN [cache |-> Append(rest, [key |-> key, entry |-> hit]),
                     size |-> size, ret |-> SomeEntry(hit)]
            ELSE [cache |-> rest, size |-> size, ret |-> NoEntry]
    ELSE [cache |-> c, size |-> size, ret |-> NoEntry]

\* LRUMemoryCache.get, under the lock
LRUGet(c, size, key, t) ==
    IF key \in KeysOf(c)
    THEN LET entry == EntryOf(c, key)
             rest == Pop(c, key)
         IN IF t < entry.expires_at
            THEN LET hit == [entry EXCEPT !.access_count = @ + 1]
                 IN [cache |-> Append(rest, [key |-> key, entry |-> hit]),
                     size |-> size, ret |-> SomeEntry(hit)]
            ELSE [cache |-> rest, size |-> size - entry.size, ret |-> NoEntry]
    ELSE [cache |-> c, size |-> size, ret |-> NoEntry]

\* the eviction loop of LRUMemoryCache.set
RECURSIVE MakeSpace(_, _, _)
MakeSpace(c, size, need) ==
    IF size + need > MaxSize /\ c # <<>>
    THEN MakeSpace(Tail(c), size - Head(c).entry.size, need)
    ELSE [cache |-> c, size |-> size]

\* a set that inserts without making space first
LRUSetNoEviction(c, size, key, entry) ==
    LET size1 == IF key \in KeysOf(c) THEN size - EntryOf(c, key).size ELSE size
    IN [cache |-> SetItem(c, key, entry), size |-> size1 + entry.size]

\* LRUMemoryCache.set, under the lock
LRUSet(c, size, key, entry) ==
    LET size1 == IF key \in KeysOf(c) THEN size - EntryOf(c, key).size ELSE size
        made == MakeSpace(c, size1, entry.size)
    IN [cache |-> SetItem(made.cache, key, entry),
        size |-> made.size + entry.size]

\* LRUMemoryCache.remove, under the lock
LRURemove(c, size, key) ==
    IF key \in KeysOf(c)
    THEN [cache |-> Pop(c, key), size |-> size - EntryOf(c, key).size]
    ELSE [cache |-> c, size |-> size]

\* ------------------------------------------------ the store driven alone
NoCall == [op |-> "none", key |-> "none", found |-> "none"]

\* what a get on key meets in the store
Found(c, key, t) ==
    IF key \notin KeysOf(c) THEN "absent"
    ELSE IF t < EntryOf(c, key).expires_at THEN "fresh" ELSE "expired"

StoreGet(key) ==
    /\ key \in KeysOf(cache) => EntryOf(cache, key).access_count < MaxAccess
    /\ LET r == LRUGet(cache, current_size, key, now)
       IN /\ cache' = r.cache
          /\ current_size' = r.size
          /\ lruRet' = r.ret
    /\ lruCall' = [op |-> "get", key |-> key, found |-> Found(cache, key, now)]
    /\ UNCHANGED now

StoreSet(key, entry) ==
    /\ LET r == LRUSet(cache, current_size, key, entry)
       IN /\ cache' = r.cache
          /\ current_size' = r.size
    /\ lruRet' = NoEntry
    /\ lruCall' = [op |-> "set", key |-> key, found |-> Found(cache, key, now)]
    /\ UNCHANGED now

StoreRemove(key) ==
    /\ LET r == LRURemove(cache, current_size, key)
       IN /\ cache' = r.cache
          /\ current_size' = r.size
    /\ lruRet' = NoEntry
    /\ lruCall' = [op |-> "remove", key |-> key, found |-> Found(cache, key, now)]
    /\ UNCHANGED now

StoreTick ==
    /\ now < MaxTime
    /\ now' = now + 1
    /\ lruCall' = NoCall
    /\ lruRet' = NoEntry
    /\ UNCHANGED lruVars

\* the entries callers hand to set: size = len(data), access_count 0 (a set)
\* or 1 (a fill from the file tier), every size <= maxsize
EntryInputs ==
    {CacheEntry(d, e, a) : d \in Payloads, e \in now .. now + DefaultTtl, a \in {0, 1}}


\* ========================================================== HybridCache
\* HybridCache._get_md5_hash: the logical key is never its own hash
Md5(key) == IF key = "K1" THEN "h1" ELSE "h2"

\* HybridCache._get_file_path: cache_dir / key
FilePath(key) == key

\* Path.with_suffix(".tmp")
WithSuffixTmp(path) == IF path = "h1" THEN "h1.tmp" ELSE "h2.tmp"

TmpPaths == {WithSuffixTmp(h) : h \in Hashes}
Paths == Hashes \cup TmpPaths \cup LogicalKeys

NoInode == 0
MaxInodes == 6        \* one per final and tmp path, one per open handle
InodeIds == 1 .. MaxInodes

\* the cells of a cache file: the 8-byte length prefix is one cell, the JSON
\* metadata is one cell, every payload byte is one cell; w names the writer
SizeCell(w) == [w |-> w, kind |-> "size", n |-> 1, ac |-> 0, b |-> ""]
MetaCell(w, expires_at) ==
    [w |-> w, kind |-> "meta", n |-> expires_at, ac |-> 0, b |-> ""]
ByteCell(w, b) == [w |-> w, kind |-> "byte", n |-> 0, ac |-> 0, b |-> b]
\* a hole left by writing past the end of the file reads as zero bytes
ZeroCell == [w |-> NoTask, kind |-> "zero", n |-> 0, ac |-> 0, b |-> "0"]
DataCells(w, data) == [i \in 1 .. Len(data) |-> ByteCell(w, data[i])]

\* the file a single set call writes
Frame(w, expires_at, data) ==
    <<SizeCell(w), MetaCell(w, expires_at)>> \o DataCells(w, data)

\* file.write(cells) at offset pos
WriteAt(content, pos, cells) ==
    LET padded == IF Len(content) < pos
                  THEN content \o [i \in 1 .. pos - Len(content) |-> ZeroCell]
                  ELSE content
        end == IF Len(padded) > pos + Len(cells) THEN Len(padded)
               ELSE pos + Len(cells)
    IN [i \in 1 .. end |->
          IF i > pos /\ i <= pos + Len(cells) THEN cells[i - pos] ELSE padded[i]]

\* file.read(n) at offset pos
ReadAt(content, pos, n) ==
    SubSeq(content, pos + 1, IF pos + n < Len(content) THEN pos + n ELSE Len(content))

\* file.read() at offset pos
ReadRest(content, pos) == SubSeq(content, pos + 1, Len(content))

BytesOf(cells) == [i \in 1 .. Len(cells) |-> cells[i].b]

\* int.from_bytes(f.read(8), "big"): a short or zero prefix gives 0
MetadataLength(cells) ==
    IF Len(cells) = 1 /\ cells[1].kind = "size" THEN cells[1].n ELSE 0

\* json.loads(metadata_bytes.decode()) succeeds
ParsesAsJson(cells) == Len(cells) = 1 /\ cells[1].kind = "meta"

\* ------------------------------------------------------------ task state
NoRet == [kind |-> "none", data |-> <<>>]
RetData(data) == [kind |-> "data", data |-> data]
RetDefault == [kind |-> "default", data |-> <<>>]
RetTrue == [kind |-> "true", data |-> <<>>]
RetFalse == [kind |-> "false", data |-> <<>>]
RetCancelled == [kind |-> "cancelled", data |-> <<>>]

NoSettled == [ok |-> FALSE, data |-> <<>>, exp |-> 0, by |-> NoTask]

\* the file at a path: whether it exists and what it holds
FileAt(d, ino, path) ==
    IF d[path] = NoInode THEN [present |-> FALSE, content |-> <<>>]
    ELSE [present |-> TRUE, content |-> ino[d[path]]]

\* a task between calls; in a set, prior is the final file of the key as it
\* was when the call began
Idle ==
    [pc |-> "idle", op |-> "none", key |-> "none", hkey |-> "none",
     data |-> <<>>, expires_at |-> 0, ac |-> 0, fd |-> NoInode, pos |-> 0,
     mlen |-> 0, clean |-> FALSE, seen |-> FALSE,
     prior |-> [present |-> FALSE, content |-> <<>>]]

\* the step just taken: task t, in call op(key), at pc `from`, did `why`;
\* ret is what the call returned if the step ended it; exp is the expires_at
\* of the entry the step looked at, ino the file the task had open
NoEvent ==
    [t |-> NoTask, op |-> "none", key |-> "none", from |-> "none",
     ret |-> NoRet, why |-> "none", exp |-> 0, ino |-> NoInode,
     seen |-> FALSE, clean |-> FALSE, cut |-> {}]
Ev(t, ret, why, exp) ==
    [NoEvent EXCEPT !.t = t, !.op = task[t].op, !.key = task[t].key,
                    !.from = task[t].pc, !.ret = ret, !.why = why, !.exp = exp,
                    !.ino = task[t].fd,
                    !.seen = task[t].seen, !.clean = task[t].clean]

InSet(tk) == tk.pc \in {"set_open", "set_write_size", "set_write_meta",
                        "set_write_data", "set_rename", "set_cleanup"}
InDelete(tk) == tk.pc = "del_remove"

\* a set or delete on logical key K starts in task t: the other calls in
\* flight on K are no longer undisturbed
Disturb(tk, t, K) ==
    [u \in Tasks |->
        IF u # t /\ tk[u].key = K
        THEN [tk[u] EXCEPT !.clean = FALSE, !.seen = FALSE]
        ELSE tk[u]]

Undisturbed(t, K) ==
    \A u \in Tasks \ {t} : ~(task[u].key = K /\ (InSet(task[u]) \/ InDelete(task[u])))

\* an inode no path and no handle refers to is freed
Referenced(i, d, tk) ==
    (\E p \in Paths : d[p] = i) \/ (\E t \in Tasks : tk[t].fd = i)

\* the file system and the handles after a step
Commit(d, ino, tk) ==
    /\ dir' = d
    /\ task' = tk
    /\ inodes' = [i \in InodeIds |-> IF Referenced(i, d, tk) THEN ino[i] ELSE <<>>]

\* the lowest inode number not in use
FreeInode == CHOOSE i \in InodeIds :
    /\ ~Referenced(i, dir, task)
    /\ \A j \in 1 .. i - 1 : Referenced(j, dir, task)

\* ------------------------------------------------------ HybridCache.get
\* key = md5(key); entry = self.memory_cache.get(key); a hit returns at once
GetStart(t, K) ==
    /\ task[t].pc = "idle"
    /\ budget > 0
    /\ Md5(K) \in KeysOf(cache) => EntryOf(cache, Md5(K)).access_count < MaxAccess
    /\ LET r == LRUGet(cache, current_size, Md5(K), now)
           call == [Idle EXCEPT !.pc = "get_open", !.op = "get", !.key = K,
                                !.hkey = Md5(K), !.seen = settled[K].ok]
       IN /\ cache' = r.cache
          /\ current_size' = r.size
          /\ IF r.ret.kind = "entry"
             THEN /\ task' = task
                  /\ event' = [NoEvent EXCEPT !.t = t, !.op = "get", !.key = K,
                                  !.from = "idle",
                                  !.ret = RetData(r.ret.entry.data),
                                  !.why = "memory",
                                  !.exp = r.ret.entry.expires_at,
                                  !.seen = settled[K].ok]
             ELSE /\ task' = [task EXCEPT ![t] = call]
                  /\ event' = NoEvent
    /\ budget' = budget - 1
    /\ UNCHANGED <<now, lruGhost, hlsVars, fsVars, settled>>

\* async with aiofiles.open(file_path, "rb")
GetOpen(t) ==
    /\ task[t].pc = "get_open"
    /\ LET path == FilePath(task[t].hkey)
       IN IF dir[path] = NoInode
          THEN /\ task' = [task EXCEPT ![t] = Idle]
               /\ event' = Ev(t, RetDefault, "notfound", 0)
          ELSE /\ task' = [task EXCEPT ![t] =
                     [@ EXCEPT !.pc = "get_read_size", !.fd = dir[path], !.pos = 0]]
               /\ event' = NoEvent
    /\ UNCHANGED <<lruVars, now, lruGhost, hlsVars, fsVars, budget, settled>>

\* metadata_size = await f.read(8); metadata_length = int.from_bytes(...)
GetReadSize(t) ==
    /\ task[t].pc = "get_read_size"
    /\ LET cells == ReadAt(inodes[task[t].fd], task[t].pos, 1)
       IN task' = [task EXCEPT ![t] =
             [@ EXCEPT !.pc = "get_read_meta", !.pos = @ + Len(cells),
                       !.mlen = MetadataLength(cells)]]
    /\ event' = NoEvent
    /\ UNCHANGED <<lruVars, now, lruGhost, hlsVars, fsVars, budget, settled>>

\* metadata_bytes = await f.read(metadata_length); json.loads; the expiry
\* check; an expired file enters self.delete(key), whose
\* memory_cache.remove(key) runs before its first await
GetReadMeta(t) ==
    /\ task[t].pc = "get_read_meta"
    /\ LET cells == ReadAt(inodes[task[t].fd], task[t].pos, task[t].mlen)
           removed == LRURemove(cache, current_size, task[t].hkey)
       IN IF ~ParsesAsJson(cells)
          THEN /\ Commit(dir, inodes, [task EXCEPT ![t] = Idle])
               /\ event' = Ev(t, RetDefault, "corrupt", 0)
               /\ UNCHANGED lruVars
          ELSE IF cells[1].n < now
          THEN /\ Commit(dir, inodes, [task EXCEPT ![t] =
                     [@ EXCEPT !.pc = "get_delete", !.fd = NoInode, !.pos = 0,
                               !.mlen = 0, !.expires_at = cells[1].n]])
               /\ event' = NoEvent
               /\ cache' = removed.cache
               /\ current_size' = removed.size
          ELSE /\ task' = [task EXCEPT ![t] =
                     [@ EXCEPT !.pc = "get_read_data", !.pos = @ + Len(cells),
                               !.mlen = 0, !.expires_at = cells[1].n,
                               !.ac = cells[1].ac]]
               /\ event' = Ev(t, NoRet, "file_fresh", cells[1].n)
               /\ UNCHANGED <<lruVars, fsVars>>
    /\ UNCHANGED <<now, lruGhost, hlsVars, budget, settled>>

\* await aiofiles.os.remove(file_path) inside self.delete(key); return default
GetDelete(t) ==
    /\ task[t].pc = "get_delete"
    /\ LET path == FilePath(task[t].hkey)
       IN Commit([dir EXCEPT ![path] = NoInode], inodes, [task EXCEPT ![t] = Idle])
    /\ event' = Ev(t, RetDefault, "expired", task[t].expires_at)
    /\ UNCHANGED <<lruVars, now, lruGhost, hlsVars, budget, settled>>

\* data = await f.read(); self.memory_cache.set(key, entry); return data
GetReadData(t) ==
    /\ task[t].pc = "get_read_data"
    /\ LET data == BytesOf(ReadRest(inodes[task[t].fd], task[t].pos))
           entry == CacheEntry(data, task[t].expires_at, task[t].ac + 1)
           r == LRUSet(cache, current_size, task[t].hkey, entry)
       IN /\ cache' = r.cache
          /\ current_size' = r.size
          /\ event' = Ev(t, RetData(data), "file", task[t].expires_at)
    /\ Commit(dir, inodes, [task EXCEPT ![t] = Idle])
    /\ UNCHANGED <<now, lruGhost, hlsVars, budget, settled>>

\* ------------------------------------------------------ HybridCache.set
\* expires_at = time.time() + (ttl or self.ttl); self.memory_cache.set(key, entry)
SetStart(t, K, data, ttl) ==
    /\ task[t].pc = "idle"
    /\ budget > 0
    /\ LET expires_at == now + (IF ttl = 0 THEN DefaultTtl ELSE ttl)
           r == LRUSet(cache, current_size, Md5(K), CacheEntry(data, expires_at, 0))
           call == [Idle EXCEPT !.pc = "set_open", !.op = "set", !.key = K,
                                !.hkey = Md5(K), !.data = data,
                                !.expires_at = expires_at,
                                !.clean = Undisturbed(t, K),
                                !.prior = FileAt(dir, inodes, FilePath(Md5(K)))]
       IN /\ cache' = r.cache
          /\ current_size' = r.size
          /\ task' = Disturb([task EXCEPT ![t] = call], t, K)
    /\ settled' = [settled EXCEPT ![K] = NoSettled]
    /\ budget' = budget - 1
    /\ event' = NoEvent
    /\ UNCHANGED <<now, lruGhost, hlsVars, fsVars>>

\* async with aiofiles.open(temp_path, "wb"): create the file or truncate it
SetOpen(t) ==
    /\ task[t].pc = "set_open"
    /\ LET tmp == WithSuffixTmp(FilePath(task[t].hkey))
           ino == IF dir[tmp] = NoInode THEN FreeInode ELSE dir[tmp]
       IN Commit([dir EXCEPT ![tmp] = ino], [inodes EXCEPT ![ino] = <<>>],
                 [task EXCEPT ![t] =
                     [@ EXCEPT !.pc = "set_write_size", !.fd = ino, !.pos = 0]])
    /\ event' = NoEvent
    /\ UNCHANGED <<lruVars, now, lruGhost, hlsVars, budget, settled>>

\* await f.write(metadata_size)
SetWriteSize(t) ==
    /\ task[t].pc = "set_write_size"
    /\ inodes' = [inodes EXCEPT ![task[t].fd] =
                     WriteAt(@, task[t].pos, <<SizeCell(t)>>)]
    /\ task' = [task EXCEPT ![t] = [@ EXCEPT !.pc = "set_write_meta", !.pos = @ + 1]]
    /\ event' = Ev(t, NoRet, "write", 0)
    /\ UNCHANGED <<lruVars, now, lruGhost, hlsVars, dir, budget, settled>>

\* await f.write(metadata_bytes)
SetWriteMeta(t) ==
    /\ task[t].pc = "set_write_meta"
    /\ inodes' = [inodes EXCEPT ![task[t].fd] =
                     WriteAt(@, task[t].pos, <<MetaCell(t, task[t].expires_at)>>)]
    /\ task' = [task EXCEPT ![t] = [@ EXCEPT !.pc = "set_write_data", !.pos = @ + 1]]
    /\ event' = Ev(t, NoRet, "write", 0)
    /\ UNCHANGED <<lruVars, now, lruGhost, hlsVars, dir, budget, settled>>

\* await f.write(data), then the file is closed on leaving the async with
SetWriteData(t) ==
    /\ task[t].pc = "set_write_data"
    /\ Commit(dir,
              [inodes EXCEPT ![task[t].fd] =
                  WriteAt(@, task[t].pos, DataCells(t, task[t].data))],
              [task EXCEPT ![t] =
                  [@ EXCEPT !.pc = "set_rename", !.fd = NoInode, !.pos = 0]])
    /\ event' = Ev(t, NoRet, "write", 0)
    /\ UNCHANGED <<lruVars, now, lruGhost, hlsVars, budget, settled>>

\* await aiofiles.os.rename(temp_path, file_path); return True.  A missing
\* tmp file raises FileNotFoundError, which the except clause handles
SetRename(t) ==
    /\ task[t].pc = "set_rename"
    /\ LET final == FilePath(task[t].hkey)
           tmp == WithSuffixTmp(final)
       IN IF dir[tmp] = NoInode
          THEN /\ task' = [task EXCEPT ![t] = [@ EXCEPT !.pc = "set_cleanup"]]
               /\ event' = NoEvent
               /\ UNCHANGED <<fsVars, settled>>
          ELSE /\ Commit([dir EXCEPT ![final] = dir[tmp], ![tmp] = NoInode],
                         inodes, [task EXCEPT ![t] = Idle])
               /\ event' = Ev(t, RetTrue, "renamed", task[t].expires_at)
               /\ settled' = [settled EXCEPT ![task[t].key] =
                     IF task[t].clean
                     THEN [ok |-> TRUE, data |-> task[t].data,
                           exp |-> task[t].expires_at, by |-> t]
                     ELSE NoSettled]
    /\ UNCHANGED <<lruVars, now, lruGhost, hlsVars, budget>>

\* except Exception: await aiofiles.os.remove(temp_path), errors ignored;
\* return False
SetCleanup(t) ==
    /\ task[t].pc = "set_cleanup"
    /\ LET tmp == WithSuffixTmp(FilePath(task[t].hkey))
       IN Commit([dir EXCEPT ![tmp] = NoInode], inodes, [task EXCEPT ![t] = Idle])
    /\ event' = Ev(t, RetFalse, "failed", 0)
    /\ UNCHANGED <<lruVars, now, lruGhost, hlsVars, budget, settled>>

\* aiofiles.open, a write or the rename raises an OSError (disk full, I/O
\* error): the async with closes the file and the except clause takes over
SetIoError(t) ==
    /\ task[t].pc \in {"set_open", "set_write_size", "set_write_meta",
                       "set_write_data", "set_rename"}
    /\ Commit(dir, inodes,
              [task EXCEPT ![t] =
                  [@ EXCEPT !.pc = "set_cleanup", !.fd = NoInode, !.pos = 0]])
    /\ event' = Ev(t, NoRet, "io_error", 0)
    /\ UNCHANGED <<lruVars, now, lruGhost, hlsVars, budget, settled>>

\* --------------------------------------------------- HybridCache.delete
\* self.memory_cache.remove(key): the key is used as it was passed
DeleteStart(t, K) ==
    /\ task[t].pc = "idle"
    /\ budget > 0
    /\ LET r == LRURemove(cache, current_size, K)
           call == [Idle EXCEPT !.pc = "del_remove", !.op = "delete", !.key = K,
                                !.hkey = K, !.clean = Undisturbed(t, K),
                                !.seen = settled[K].ok]
       IN /\ cache' = r.cache
          /\ current_size' = r.size
          /\ task' = Disturb([task EXCEPT ![t] = call], t, K)
    /\ settled' = [settled EXCEPT ![K] = NoSettled]
    /\ budget' = budget - 1
    /\ event' = NoEvent
    /\ UNCHANGED <<now, lruGhost, hlsVars, fsVars>>

\* await aiofiles.os.remove(file_path); FileNotFoundError also returns True
DeleteRemove(t) ==
    /\ task[t].pc = "del_remove"
    /\ LET path == FilePath(task[t].hkey)
       IN Commit([dir EXCEPT ![path] = NoInode], inodes, [task EXCEPT ![t] = Idle])
    /\ event' = Ev(t, RetTrue, "deleted", 0)
    /\ UNCHANGED <<lruVars, now, lruGhost, hlsVars, budget, settled>>

\* ------------------------------------------------------ the environment
\* the task is cancelled at the await it is suspended in: CancelledError is
\* not an Exception, so no except clause of the cache runs; the async with
\* closes the file
Cancel(t) ==
    /\ task[t].pc # "idle"
    /\ Commit(dir, inodes, [task EXCEPT ![t] = Idle])
    /\ event' = Ev(t, RetCancelled, "cancelled", 0)
    /\ UNCHANGED <<lruVars, now, lruGhost, hlsVars, budget, settled>>

\* the hashed keys of the sets that have written to their tmp file and have
\* not renamed it yet
CutByCrash ==
    {task[t].hkey : t \in {u \in Tasks :
        task[u].pc \in {"set_write_meta", "set_write_data", "set_rename"}}}

\* the process dies and is started again: the tasks and the memory tier are
\* gone, the files stay
Crash ==
    /\ cache # <<>> \/ \E t \in Tasks : task[t].pc # "idle"
    /\ event' = [NoEvent EXCEPT !.op = "crash", !.cut = CutByCrash]
    /\ Commit(dir, inodes, [t \in Tasks |-> Idle])
    /\ cache' = <<>>
    /\ current_size' = 0
    /\ settled' = [K \in LogicalKeys |-> NoSettled]
    /\ UNCHANGED <<now, lruGhost, hlsVars, budget>>

Tick ==
    /\ now < MaxTime
    /\ now' = now + 1
    /\ event' = NoEvent
    /\ UNCHANGED <<lruVars, lruGhost, hlsVars, fsVars, task, budget, settled>>

\* ============================================= the get-or-fetch facades
RetRaised == [kind |-> "raised", data |-> <<>>]

\* ------------------------------------- AsyncMemoryCache and get_cached_mpd
\* In SpecMpd the store is MPD_CACHE.memory_cache, keyed by the manifest URL.
AsyncDefaultTtl == 3600
LiveTtl == 1
VodTtl == 3600

\* the manifests the source can serve: the raw text, told apart by its first
\* byte; the second one is larger
Manifests == {<<"vod">>, <<"neg">>, <<"m0">>, <<"m1">>, <<"m2", "x">>}

\* parsed_dict_fresh.get("minimumUpdatePeriod"): None for a VOD manifest
NoMup == [present |-> FALSE, value |-> 0]
SomeMup(value) == [present |-> TRUE, value |-> value]
Mup(manifest) ==
    CASE manifest[1] = "vod" -> NoMup
      [] manifest[1] = "neg" -> SomeMup(-1)
      [] manifest[1] = "m0" -> SomeMup(0)
      [] manifest[1] = "m1" -> SomeMup(1)
      [] OTHER -> SomeMup(2)

\* parse_mpd(mpd_content): the raw dictionary xmltodict makes of the text
ParseMpd(content) == [kind |-> "raw", text |-> content]

\* parse_mpd_dict(raw, ...) when it does not raise: the processed dictionary,
\* which carries isLive, minimumUpdatePeriod and the profiles
ParseMpdDict(mpd_dict) == [kind |-> "processed", text |-> mpd_dict.text]

\* json.dumps(d).encode(): the processed dictionary serialises to other,
\* longer bytes than the raw one
JsonDumps(mpd_dict) ==
    IF mpd_dict.kind = "raw" THEN mpd_dict.text
    ELSE <<"processed">> \o mpd_dict.text

\* json.loads(cached_data)
JsonLoads(data) ==
    IF data # <<>> /\ data[1] = "processed"
    THEN [kind |-> "processed", text |-> Tail(data)]
    ELSE [kind |-> "raw", text |-> data]

\* a write-back that caches the dictionary the call returns
CachedManifestProcessed(mpd_dict_fresh, parsed_dict_fresh) ==
    JsonDumps(parsed_dict_fresh)

\* the bytes handed to MPD_CACHE.set: json.dumps(mpd_dict_fresh).encode()
CachedManifest(mpd_dict_fresh, parsed_dict_fresh) ==
    JsonDumps(mpd_dict_fresh)

\* a TTL that hands mup to the cache as it is
CacheTtlRaw(mup) ==
    IF mup.present THEN mup.value ELSE VodTtl

\* cache_ttl of get_cached_mpd
CacheTtl(mup) ==
    IF mup.present /\ mup.value > 0 THEN mup.value
    ELSE IF mup.present /\ mup.value <= 0 THEN LiveTtl
    ELSE VodTtl

\* AsyncMemoryCache.set: expires_at = time.time() + (ttl or 3600)
AsyncSet(c, size, key, data, ttl, t) ==
    LRUSet(c, size, key,
           CacheEntry(data, t + (IF ttl = 0 THEN AsyncDefaultTtl ELSE ttl), 0))

\* AsyncMemoryCache.delete
AsyncDelete(c, size, key) == LRURemove(c, size, key)

\* the frame of a facade call that waits for the downloader
Downloading(pc, op, url) ==
    [Idle EXCEPT !.pc = pc, !.op = op, !.key = url, !.hkey = url]

FacadeEvent(t, op, url, from, ret, why, exp, seen) ==
    [NoEvent EXCEPT !.t = t, !.op = op, !.key = url, !.from = from, !.ret = ret,
                    !.why = why, !.exp = exp, !.seen = seen]

\* cached_data = await MPD_CACHE.get(mpd_url); a hit is decoded and processed
\* again and returned; when the processor rejects it (processes = FALSE) the
\* key is deleted and the manifest is fetched like on a miss
MpdStart(t, url, processes) ==
    /\ task[t].pc = "idle"
    /\ budget > 0
    /\ url \in KeysOf(cache) => EntryOf(cache, url).access_count < MaxAccess
    /\ LET r == LRUGet(cache, current_size, url, now)
           held == url \in KeysOf(cache)
           exp == IF held THEN EntryOf(cache, url).expires_at ELSE 0
           removed == AsyncDelete(r.cache, r.size, url)
       IN IF r.ret.kind = "entry" /\ processes
          THEN /\ cache' = r.cache
               /\ current_size' = r.size
               /\ task' = task
               /\ event' = FacadeEvent(t, "mpd", url, "idle",
                                       RetData(ParseMpdDict(JsonLoads(r.ret.entry.data))),
                                       "mpd_hit", exp, held)
          ELSE IF r.ret.kind = "entry"
          THEN /\ cache' = removed.cache
               /\ current_size' = removed.size
               /\ task' = [task EXCEPT ![t] = Downloading("mpd_download", "mpd", url)]
               /\ event' = FacadeEvent(t, "mpd", url, "idle", NoRet, "mpd_refetch", exp, held)
          ELSE /\ cache' = r.cache
               /\ current_size' = r.size
               /\ task' = [task EXCEPT ![t] = Downloading("mpd_download", "mpd", url)]
               /\ event' = FacadeEvent(t, "mpd", url, "idle", NoRet, "mpd_miss", exp, held)
    /\ budget' = budget - 1
    /\ UNCHANGED <<now, lruGhost, hlsVars, fsVars, settled>>

\* mpd_content = await download_file_with_retry(...); parse; process; cache
\* the raw manifest with the TTL; return.  An error of the processor is
\* raised again and nothing is cached
MpdDownload(t, manifest, processes) ==
    /\ task[t].pc = "mpd_download"
    /\ LET url == task[t].key
           mpd_dict_fresh == ParseMpd(manifest)
           parsed_dict_fresh == ParseMpdDict(mpd_dict_fresh)
           ttl == CacheTtl(Mup(parsed_dict_fresh.text))
           r == AsyncSet(cache, current_size, url,
                         CachedManifest(mpd_dict_fresh, parsed_dict_fresh), ttl, now)
       IN IF processes
          THEN /\ cache' = r.cache
               /\ current_size' = r.size
               /\ event' = FacadeEvent(t, "mpd", url, "mpd_download",
                                       RetData(parsed_dict_fresh), "mpd_stored", EntryOf(r.cache, url).expires_at, FALSE)
          ELSE /\ UNCHANGED lruVars
               /\ event' = FacadeEvent(t, "mpd", url, "mpd_download", RetRaised,
                                       "process_error", 0, FALSE)
    /\ task' = [task EXCEPT ![t] = Idle]
    /\ UNCHANGED <<now, lruGhost, hlsVars, fsVars, budget, settled>>

\* download_file_with_retry raises DownloadError: logged and raised again
MpdDownloadError(t) ==
    /\ task[t].pc = "mpd_download"
    /\ task' = [task EXCEPT ![t] = Idle]
    /\ event' = FacadeEvent(t, "mpd", task[t].key, "mpd_download", RetRaised,
                            "download_error", 0, FALSE)
    /\ UNCHANGED <<lruVars, now, lruGhost, hlsVars, fsVars, budget, settled>>

\* ------------------------------------------------ get_cached_init_segment
\* In SpecSeg the cache is INIT_SEGMENT_CACHE.  The call opens with
\* INIT_SEGMENT_CACHE.get(init_url) (GetStart and the steps after it).
\* what the downloader can return: the payloads and the empty byte string
SegmentContents == Payloads \cup {<<>>}

\* cached_data is None: the call goes on to the downloader, in the step its
\* get returned the default
SegMiss(t) ==
    /\ task[t].pc = "idle"
    /\ event.t = t
    /\ event.op = "get"
    /\ event.ret = RetDefault
    /\ task' = [task EXCEPT ![t] = Downloading("seg_download", "seg", event.key)]
    /\ event' = FacadeEvent(t, "seg", event.key, "idle", NoRet, "seg_miss", 0, event.seen)
    /\ UNCHANGED <<lruVars, now, lruGhost, hlsVars, fsVars, budget, settled>>

\* init_content = await download_file_with_retry(...): the bytes arrive; empty
\* content is returned without being cached
SegDownload(t, content) ==
    /\ task[t].pc = "seg_download"
    /\ task' = [task EXCEPT ![t] = Idle]
    /\ event' = FacadeEvent(t, "seg", task[t].key, "seg_download", RetData(content),
                            "downloaded", 0, FALSE)
    /\ settled' = IF content = <<>> /\ Undisturbed(t, task[t].key)
                  THEN [settled EXCEPT ![task[t].key] =
                           [ok |-> TRUE, data |-> content,
                            exp |-> now + DefaultTtl, by |-> t]]
                  ELSE settled
    /\ UNCHANGED <<lruVars, now, lruGhost, hlsVars, fsVars, budget>>

\* if init_content: await INIT_SEGMENT_CACHE.set(init_url, init_content), in
\* the step the bytes arrived; the call returns them when the set is over
SegStore(t) ==
    /\ event.t = t
    /\ event.why = "downloaded"
    /\ event.ret.data # <<>>
    /\ SetStart(t, event.key, event.ret.data, 0)

\* the downloader raises: except Exception logs and returns None
SegDownloadError(t) ==
    /\ task[t].pc = "seg_download"
    /\ task' = [task EXCEPT ![t] = Idle]
    /\ event' = FacadeEvent(t, "seg", task[t].key, "seg_download", RetDefault,
                            "download_error", 0, FALSE)
    /\ UNCHANGED <<lruVars, now, lruGhost, hlsVars, fsVars, budget, settled>>

\* ====================================================== mpd_processor.py
\* dict.get on a key the dict lacks: the field is absent
Absent == -1

MaxSegments == 2      \* cap on the segments of a profile
MaxProfiles == 3      \* cap on the profiles of a manifest

Schemes == {"http", "https"}
\* the scheme of the connection that reaches the server
InternalSchemes == {"http"}
ProfileIds == {"a", "b"}
MimeTypes == {"video/mp4", "audio/mp4", "text/vtt"}

\* "video" in profile["mimeType"], "audio" in profile["mimeType"]
HasVideo(mime) == mime = "video/mp4"
HasAudio(mime) == mime = "audio/mp4"

\* segment["extinf"]: a number (in thousandths), float("inf"), float("nan"),
\* or no such field
Num(milli) == [kind |-> "num", milli |-> milli]
Inf == [kind |-> "inf", milli |-> 0]
NaN == [kind |-> "nan", milli |-> 0]
NoExtinf == [kind |-> "absent", milli |-> 0]
ExtinfInputs == {Num(1500), Num(4000), Inf, NaN, NoExtinf}

SegmentInputs ==
    [hls_media_sequence_num : {Absent, 7}, number : {Absent, 3},
     extinf : ExtinfInputs]
PlainSegment == [hls_media_sequence_num |-> Absent, number |-> 1, extinf |-> Num(1500)]

SegmentLists == UNION {[1 .. n -> SegmentInputs] : n \in 0 .. MaxSegments}

Profile(id, mime, bandwidth, segments) ==
    [id |-> id, mimeType |-> mime, bandwidth |-> bandwidth, segments |-> segments]

\* a URL: scheme, route and the query built for it
Url(scheme, endpoint, id) == [scheme |-> scheme, endpoint |-> endpoint, id |-> id]
NoUrl == Url("none", "none", "none")

\* request.url_for(name): the URL of the route as the server itself sees it
UrlFor(request, name) == Url(request.scheme, name, "none")
\* URL.replace(scheme=...)
ReplaceScheme(url, scheme) == [url EXCEPT !.scheme = scheme]
\* get_original_scheme(request): the scheme the client used
GetOriginalScheme(request) == request.original
\* encode_mediaflow_proxy_url(base, query_params=...): the base URL with the
\* query appended
EncodeUrl(base, id) == [base EXCEPT !.id = id]

\* one line of the output
Line(tag, id, n, flag, url) ==
    [tag |-> tag, id |-> id, n |-> n, flag |-> flag, url |-> url]
TagLine(tag) == Line(tag, "none", 0, FALSE, NoUrl)
NumLine(tag, n) == Line(tag, "none", n, FALSE, NoUrl)
UrlLine(url) == Line("URL", "none", 0, FALSE, url)

Returned(lines) == [kind |-> "ok", lines |-> lines]
Raised(what) == [kind |-> what, lines |-> <<>>]
NoOutput == [kind |-> "none", lines |-> <<>>]

\* ------------------------------------------------------------ build_hls
\* video_profiles[profile["id"]] = (profile, playlist_url): a dict keeps the
\* position of a key it already holds
RECURSIVE Bucket(_, _, _, _)
Bucket(profiles, i, wanted, proxy_url) ==
    IF i = 0 THEN <<>>
    ELSE LET rest == Bucket(profiles, i - 1, wanted, proxy_url)
             profile == profiles[i]
             kind == IF HasVideo(profile.mimeType) THEN "video"
                     ELSE IF HasAudio(profile.mimeType) THEN "audio" ELSE "other"
         IN IF kind = wanted
            THEN SetItem(rest, profile.id,
                         [profile |-> profile,
                          playlist_url |-> EncodeUrl(proxy_url, profile.id)])
            ELSE rest

AudioLines(audio_profiles) ==
    [i \in 1 .. Len(audio_profiles) |->
        Line("MEDIA", audio_profiles[i].entry.profile.id,
             audio_profiles[i].entry.profile.bandwidth, i = 1,
             audio_profiles[i].entry.playlist_url)]

RECURSIVE VideoLines(_, _)
VideoLines(video_profiles, i) ==
    IF i = 0 THEN <<>>
    ELSE VideoLines(video_profiles, i - 1) \o
         <<Line("STREAM-INF", video_profiles[i].entry.profile.id,
                video_profiles[i].entry.profile.bandwidth, FALSE, NoUrl),
           UrlLine(video_profiles[i].entry.playlist_url)>>

build_hls(mpd_dict, request) ==
    LET proxy_url == ReplaceScheme(UrlFor(request, "playlist_endpoint"),
                                   GetOriginalScheme(request))
        n == Len(mpd_dict.profiles)
        audio_profiles == Bucket(mpd_dict.profiles, n, "audio", proxy_url)
        video_profiles == Bucket(mpd_dict.profiles, n, "video", proxy_url)
    IN Returned(<<TagLine("EXTM3U"), TagLine("VERSION")>>
                \o AudioLines(audio_profiles)
                \o VideoLines(video_profiles, Len(video_profiles)))

\* --------------------------------------------------- build_hls_playlist
\* x > y on floats: every comparison with nan is false
FloatGt(x, y) ==
    IF x.kind = "nan" \/ y.kind = "nan" THEN FALSE
    ELSE IF x.kind = "inf" THEN y.kind # "inf"
    ELSE IF y.kind = "inf" THEN FALSE
    ELSE x.milli > y.milli

\* max(values): the first item, replaced by each later item that is greater
RECURSIVE PyMax(_, _)
PyMax(values, i) ==
    IF i = 1 THEN values[1]
    ELSE LET m == PyMax(values, i - 1)
         IN IF FloatGt(values[i], m) THEN values[i] ELSE m

\* [f["extinf"] for f in segments if "extinf" in f and isinstance(..., (float, int))]
RECURSIVE ExtinfValues(_, _)
ExtinfValues(segments, i) ==
    IF i = 0 THEN <<>>
    ELSE ExtinfValues(segments, i - 1) \o
         (IF segments[i].extinf.kind \in {"num", "inf", "nan"}
          THEN <<segments[i].extinf>> ELSE <<>>)

\* math.ceil of a number given in thousandths
Ceil(milli) == -((-milli) \div 1000)

DefaultTargetDuration == 5
DefaultSequence == 0

\* target_duration: math.ceil raises OverflowError on inf, ValueError on nan
TargetDuration(segments) ==
    LET extinf_values == ExtinfValues(segments, Len(segments))
    IN IF extinf_values = <<>>
       THEN [ok |-> TRUE, n |-> DefaultTargetDuration]
       ELSE LET m == PyMax(extinf_values, Len(extinf_values))
            IN IF m.kind = "num" THEN [ok |-> TRUE, n |-> Ceil(m.milli)]
               ELSE [ok |-> FALSE, n |-> 0]

\* a sequence number that prefers the segment number
MediaSequenceNumberFirst(segments) ==
    IF segments[1].number # Absent THEN segments[1].number
    ELSE IF segments[1].hls_media_sequence_num # Absent
    THEN segments[1].hls_media_sequence_num
    ELSE DefaultSequence

\* segments[0].get("hls_media_sequence_num", segments[0].get("number", 0))
MediaSequence(segments) ==
    IF segments[1].hls_media_sequence_num # Absent
    THEN segments[1].hls_media_sequence_num
    ELSE IF segments[1].number # Absent THEN segments[1].number
    ELSE DefaultSequence

\* the header block, written for the profile at index 0 only
Headers(mpd_dict, segments) ==
    <<NumLine("TARGETDURATION", TargetDuration(segments).n),
      NumLine("MEDIA-SEQUENCE", MediaSequence(segments)),
      TagLine(IF mpd_dict.isLive THEN "PLAYLIST-TYPE:EVENT" ELSE "PLAYLIST-TYPE:VOD")>>

\* for segment in segments: #EXTINF and the segment URL; segment["extinf"]
\* raises KeyError when the field is absent
RECURSIVE SegmentLines(_, _, _, _)
SegmentLines(profile, segments, i, proxy_url) ==
    IF i = 0 THEN Returned(<<>>)
    ELSE LET before == SegmentLines(profile, segments, i - 1, proxy_url)
         IN IF before.kind # "ok" THEN before
            ELSE IF segments[i].extinf.kind = "absent" THEN Raised("KeyError")
            ELSE Returned(before.lines \o
                     <<Line("EXTINF", "none", segments[i].extinf.milli, FALSE, NoUrl),
                       UrlLine(EncodeUrl(proxy_url, profile.id))>>)

\* for index, profile in enumerate(profiles): i counts from 1
RECURSIVE ProfileLines(_, _, _, _)
ProfileLines(mpd_dict, profiles, i, proxy_url) ==
    IF i = 0 THEN Returned(<<TagLine("EXTM3U"), TagLine("VERSION")>>)
    ELSE LET before == ProfileLines(mpd_dict, profiles, i - 1, proxy_url)
             profile == profiles[i]
             segments == profile.segments
         IN IF before.kind # "ok" THEN before
            ELSE IF segments = <<>> THEN before
            ELSE IF i = 1 /\ ~TargetDuration(segments).ok THEN Raised("ArithmeticError")
            ELSE LET body == SegmentLines(profile, segments, Len(segments), proxy_url)
                     head == IF i = 1 THEN Headers(mpd_dict, segments) ELSE <<>>
                 IN IF body.kind # "ok" THEN body
                    ELSE Returned(before.lines \o head \o body.lines)

\* segment_proxy_endpoint_url carries the original scheme, but the segment
\* URLs are encoded from proxy_url
build_hls_playlist(mpd_dict, profiles, request) ==
    LET proxy_url == UrlFor(request, "segment_endpoint")
        segment_proxy_endpoint_url == ReplaceScheme(proxy_url, GetOriginalScheme(request))
        body == ProfileLines(mpd_dict, profiles, Len(profiles), proxy_url)
    IN IF body.kind # "ok" THEN body
       ELSE Returned(body.lines \o
                (IF mpd_dict.isLive THEN <<>> ELSE <<TagLine("ENDLIST")>>))

\* ------------------------------------------------- the request handlers
Request(scheme, original) == [scheme |-> scheme, original |-> original]
NoHlsInput ==
    [mpd_dict |-> [profiles |-> <<>>, isLive |-> FALSE],
     request |-> Request("none", "none")]

\* manifests as the master request sees them: profiles of every kind
MasterProfiles ==
    UNION {{[i \in 1 .. n |-> Profile(ids[i], mimes[i], i, <<>>)] :
                ids \in [1 .. n -> ProfileIds], mimes \in [1 .. n -> MimeTypes]} :
           n \in 0 .. MaxProfiles}

\* manifests as the playlist request sees them: one or two video profiles
\* with their segment lists
PlaylistProfiles ==
    {<<Profile("a", "video/mp4", 1, segments)>> : segments \in SegmentLists}
    \cup
    {<<Profile("a", "video/mp4", 1, segments), Profile(id, "video/mp4", 2, more)>> :
        id \in ProfileIds, segments \in SegmentLists,
        more \in {<<>>, <<PlainSegment>>}}

HlsInputs ==
    {[mpd_dict |-> [profiles |-> profiles, isLive |-> isLive],
      request |-> Request(scheme, original)] :
        profiles \in MasterProfiles \cup PlaylistProfiles, isLive \in BOOLEAN,
        scheme \in InternalSchemes, original \in Schemes}

\* [p for p in mpd_dict["profiles"] if p["id"] == profile_id]
MatchingProfiles(profiles, profile_id) ==
    SelectSeq(profiles, LAMBDA p : p.id = profile_id)

\* process_manifest
ProcessManifest ==
    /\ hlsIn # NoHlsInput
    /\ hlsOut' = [op |-> "manifest", profile_id |-> "none",
                  result |-> build_hls(hlsIn.mpd_dict, hlsIn.request)]
    /\ UNCHANGED <<lruVars, now, lruGhost, fsVars, task, budget, settled, event, hlsIn>>

\* process_playlist: 404 when no profile has the id
ProcessPlaylist(profile_id) ==
    /\ hlsIn # NoHlsInput
    /\ LET matching_profiles == MatchingProfiles(hlsIn.mpd_dict.profiles, profile_id)
       IN hlsOut' = [op |-> "playlist", profile_id |-> profile_id,
                     result |-> IF matching_profiles = <<>>
                                THEN Raised("HTTPException")
                                ELSE build_hls_playlist(hlsIn.mpd_dict,
                                                        matching_profiles,
                                                        hlsIn.request)]
    /\ UNCHANGED <<lruVars, now, lruGhost, fsVars, task, budget, settled, event, hlsIn>>

NoHlsOutput == [op |-> "none", profile_id |-> "none", result |-> NoOutput]

\* ------------------------------------------------------- specifications
\* the state after construction; disk is what the cache directory holds
InitCache(disk, n) ==
    /\ cache = <<>>
    /\ current_size = 0
    /\ now = 0
    /\ lruCall = NoCall
    /\ lruRet = NoEntry
    /\ dir = [p \in Paths |-> IF p \in DOMAIN disk THEN 1 ELSE NoInode]
    /\ inodes = [i \in InodeIds |->
                    IF i = 1 /\ DOMAIN disk # {}
                    THEN disk[CHOOSE p \in DOMAIN disk : TRUE] ELSE <<>>]
    /\ task = [t \in Tasks |-> Idle]
    /\ budget = n
    /\ settled = [K \in LogicalKeys |-> NoSettled]
    /\ event = NoEvent

\* no request for the translator
InitWith(disk, n) ==
    /\ InitCache(disk, n)
    /\ hlsIn = NoHlsInput
    /\ hlsOut = NoHlsOutput

EmptyDisk == [p \in {} |-> <<>>]

\* the cache directory is empty when the process starts
Init == InitWith(EmptyDisk, MaxCalls)

TaskStep(t, Keys) ==
    \/ \E K \in Keys : GetStart(t, K)
    \/ GetOpen(t)
    \/ GetReadSize(t)
    \/ GetReadMeta(t)
    \/ GetDelete(t)
    \/ GetReadData(t)
    \/ \E K \in Keys, data \in Payloads, ttl \in TtlArgs : SetStart(t, K, data, ttl)
    \/ SetOpen(t)
    \/ SetWriteSize(t)
    \/ SetWriteMeta(t)
    \/ SetWriteData(t)
    \/ SetRename(t)
    \/ SetCleanup(t)
    \/ \E K \in Keys : DeleteStart(t, K)
    \/ DeleteRemove(t)

Next ==
    \/ \E t \in Tasks : TaskStep(t, LogicalKeys)
    \/ \E t \in Tasks : Cancel(t)
    \/ Crash
    \/ Tick

Spec == Init /\ [][Next]_vars

\* the cache directory holds a file an earlier run of the process wrote for
\* K1, and the calls are on K1
WarmKeys == {"K1"}
WarmCalls == 3
WarmDisks ==
    {[p \in {FilePath(Md5("K1"))} |-> Frame(NoTask, DefaultTtl, data)] : data \in Payloads}

InitWarm == \E disk \in WarmDisks : InitWith(disk, WarmCalls)

NextWarm ==
    \/ \E t \in Tasks : TaskStep(t, WarmKeys)
    \/ Tick

SpecWarm == InitWarm /\ [][NextWarm]_vars

\* the same directory, with the file system failing under the writes
FaultCalls == 2
NextFault ==
    \/ \E t \in Tasks : TaskStep(t, WarmKeys)
    \/ \E t \in Tasks : SetIoError(t)
    \/ Tick

SpecFault ==
    (\E disk \in WarmDisks : InitWith(disk, FaultCalls)) /\ [][NextFault]_vars

StoreNext ==
    \/ \E key \in Hashes : StoreGet(key)
    \/ \E key \in Hashes, entry \in EntryInputs : StoreSet(key, entry)
    \/ \E key \in Hashes : StoreRemove(key)
    \/ StoreTick

NextLRU == StoreNext /\ UNCHANGED <<fsVars, task, budget, settled, event, hlsVars>>

SpecLRU == Init /\ [][NextLRU]_vars

\* the manifest cache behind get_cached_mpd
MpdCalls == 3
InitMpd == InitWith(EmptyDisk, MpdCalls)

NextMpd ==
    \/ \E t \in Tasks, url \in LogicalKeys, processes \in BOOLEAN :
          MpdStart(t, url, processes)
    \/ \E t \in Tasks, manifest \in Manifests, processes \in BOOLEAN :
          MpdDownload(t, manifest, processes)
    \/ \E t \in Tasks : MpdDownloadError(t)
    \/ \E t \in Tasks : Cancel(t)
    \/ Tick

SpecMpd == InitMpd /\ [][NextMpd]_vars

\* the init-segment cache behind get_cached_init_segment: every get is the
\* opening of a facade call and every set is its write-back
SegCalls == 4
InitSeg == InitWith(EmptyDisk, SegCalls)

NextSeg ==
    \/ \E t \in Tasks, url \in WarmKeys : GetStart(t, url)
    \/ \E t \in Tasks :
          \/ GetOpen(t)
          \/ GetReadSize(t)
          \/ GetReadMeta(t)
          \/ GetDelete(t)
          \/ GetReadData(t)
          \/ SegMiss(t)
          \/ SegDownloadError(t)
          \/ SegStore(t)
          \/ SetOpen(t)
          \/ SetWriteSize(t)
          \/ SetWriteMeta(t)
          \/ SetWriteData(t)
          \/ SetRename(t)
          \/ SetCleanup(t)
    \/ \E t \in Tasks, content \in SegmentContents : SegDownload(t, content)
    \/ Tick

SpecSeg == InitSeg /\ [][NextSeg]_vars

\* the translator alone: a request and a parsed manifest arrive, and the
\* handlers answer
InitHls ==
    /\ InitCache(EmptyDisk, 0)
    /\ hlsIn \in HlsInputs
    /\ hlsOut = NoHlsOutput

NextHls ==
    \/ ProcessManifest
    \/ \E profile_id \in ProfileIds : ProcessPlaylist(profile_id)

SpecHls == InitHls /\ [][NextHls]_vars


\* =========================================================== properties
\* the file holds what one set call writes: prefix, metadata and the whole
\* payload, all from the same writer
IsCompleteFrame(content) ==
    /\ Len(content) >= 2
    /\ content[1].kind = "size"
    /\ content[2].kind = "meta"
    /\ \A i \in DOMAIN content : content[i].w = content[1].w
    /\ \A i \in 3 .. Len(content) : content[i].kind = "byte"
    /\ BytesOf(SubSeq(content, 3, Len(content))) \in Payloads

\* no call on logical key K is in flight
Quiet(K) == \A t \in Tasks : task[t].key # K

\* C1: with every entry of size <= maxsize, the sizes of the entries held in
\* the store add up to at most maxsize after each call
C1_SumWithinMaxsize == SumSizes(cache) <= MaxSize

\* C2: when delete(K), called with the logical key that a completed set(K, P)
\* stored and undisturbed by other calls on K, returns true, K is in neither
\* tier
C2_DeleteRemovesKey ==
    (/\ event.op = "delete"
     /\ event.ret = RetTrue
     /\ event.seen
     /\ event.clean
     /\ Quiet(event.key))
        => /\ Md5(event.key) \notin KeysOf(cache)
           /\ dir[FilePath(Md5(event.key))] = NoInode

\* C3: the final file of a key is always absent or the complete frame of one
\* single set call, also while sets on the key run concurrently
C3_NoTornFile ==
    \A h \in Hashes :
        dir[FilePath(h)] # NoInode => IsCompleteFrame(inodes[dir[FilePath(h)]])

\* C4: a get of the task whose set(K, P) completed, with no set or delete on K
\* since and before expiry, returns P, whatever gets other tasks run
C4_ReadYourWrites ==
    (/\ event.op = "get"
     /\ event.ret.kind \in {"data", "default"}
     /\ event.seen
     /\ settled[event.key].ok
     /\ settled[event.key].by = event.t
     /\ now < settled[event.key].exp)
        => event.ret = RetData(settled[event.key].data)

\* C5: once set(K, P) returned true, every get(K) started afterwards returns
\* P while the entry is fresh and no delete or other set on K occurred, from
\* the LRU tier or from the file tier
C5_RoundTrip ==
    \A K \in LogicalKeys :
        (/\ event.op = "get"
         /\ event.key = K
         /\ event.ret.kind \in {"data", "default"}
         /\ event.seen
         /\ settled[K].ok
         /\ now < settled[K].exp)
            => /\ event.ret.kind = "data"
               /\ event.ret.data = settled[K].data

\* C6: get passes no entry whose expires_at <= now as fresh, in the LRU tier
\* or in the file tier, and a get that found the entry expired leaves the
\* key in neither tier
C6_NoStalePayload ==
    /\ event.why \in {"memory", "file_fresh"} => now < event.exp
    /\ (event.why = "expired" /\ Quiet(event.key))
          => /\ Md5(event.key) \notin KeysOf(cache)
             /\ dir[FilePath(Md5(event.key))] = NoInode

\* C7: LRUMemoryCache.get on an expired entry returns None, removes the key
\* and subtracts the entry's size once; on a fresh entry it returns the
\* entry, makes it the most recent one and adds 1 to access_count
C7_GetExpiredOrFresh ==
    [][\A key \in Hashes :
          (lruCall'.op = "get" /\ lruCall'.key = key /\ key \in KeysOf(cache))
            => LET entry == EntryOf(cache, key)
               IN IF entry.expires_at <= now
                  THEN /\ lruRet' = NoEntry
                       /\ key \notin KeysOf(cache')
                       /\ current_size' = current_size - entry.size
                  ELSE /\ lruRet' = SomeEntry([entry EXCEPT !.access_count = @ + 1])
                       /\ cache' # <<>>
                       /\ cache'[Len(cache')] =
                             [key |-> key,
                              entry |-> [entry EXCEPT !.access_count = @ + 1]]
                       /\ Len(cache') = Len(cache)
                       /\ current_size' = current_size]_vars

\* a get has just dropped an expired entry of positive size
C7_Witness ==
    /\ lruCall.op = "get"
    /\ lruCall.found = "expired"
    /\ lruRet = NoEntry
    /\ lruCall.key \notin KeysOf(cache)
    /\ cache # <<>>

\* C8: after a crash that cut a set between its first write to the tmp file
\* and its rename, the final file of the key is absent or complete, and no
\* get has a tmp file open
C8_CrashKeepsPrevious ==
    /\ event.op = "crash" =>
          \A h \in event.cut :
              dir[FilePath(h)] = NoInode \/ IsCompleteFrame(inodes[dir[FilePath(h)]])
    /\ \A t \in Tasks :
          (task[t].op = "get" /\ task[t].fd # NoInode)
              => \A p \in TmpPaths : dir[p] # task[t].fd

\* C9: when a set is cancelled while it writes or renames the tmp file and no
\* other set on the key is in flight, no tmp file of the key is left
C9_CancelRemovesTmp ==
    (/\ event.op = "set"
     /\ event.why = "cancelled"
     /\ event.from \in {"set_write_size", "set_write_meta", "set_write_data",
                        "set_rename"}
     /\ Quiet(event.key))
        => dir[WithSuffixTmp(FilePath(Md5(event.key)))] = NoInode

\* C10: when get returns default because the metadata of the file it opened
\* does not parse, that file no longer exists
C10_CorruptDeleted ==
    event.why = "corrupt" => \A p \in Paths : dir[p] # event.ino

\* C11: after every call of the store the reported size _current_size is at
\* most maxsize (entries are never larger than maxsize)
C11_ReportedSizeBounded == current_size <= MaxSize

\* a set that overwrote a stored key and left the store reporting maxsize
C11_Witness ==
    /\ lruCall.op = "set"
    /\ lruCall.found # "absent"
    /\ Len(cache) = 2
    /\ current_size = MaxSize

\* C20: after set(k, e) returns, k is the most-recent key of the store, also
\* when the set overwrote an entry stored under k
C20_SetMakesMostRecent ==
    lruCall.op = "set" => (cache # <<>> /\ cache[Len(cache)].key = lruCall.key)

\* the lines of the last answer that carry the tag
LinesWith(tag) ==
    SelectSeq(hlsOut.result.lines, LAMBDA line : line.tag = tag)

\* the profiles the playlist request selected
Selected == MatchingProfiles(hlsIn.mpd_dict.profiles, hlsOut.profile_id)

PlaylistBuilt == hlsOut.op = "playlist" /\ Selected # <<>>

\* C15: every playlist carries the header block exactly once, and with the
\* defaults 5 and 0 when the first profile has no segments
C15_HeadersOnce ==
    (PlaylistBuilt /\ hlsOut.result.kind = "ok")
        => /\ Len(LinesWith("TARGETDURATION")) = 1
           /\ Len(LinesWith("MEDIA-SEQUENCE")) = 1
           /\ Len(LinesWith("PLAYLIST-TYPE:EVENT")) + Len(LinesWith("PLAYLIST-TYPE:VOD")) = 1
           /\ Selected[1].segments = <<>>
                => /\ LinesWith("TARGETDURATION")[1].n = DefaultTargetDuration
                   /\ LinesWith("MEDIA-SEQUENCE")[1].n = DefaultSequence

\* C16: every URL of the master manifest and of the media playlist has the
\* scheme the client used
C16_OriginalScheme ==
    \A i \in DOMAIN hlsOut.result.lines :
        hlsOut.result.lines[i].url # NoUrl
            => hlsOut.result.lines[i].url.scheme = GetOriginalScheme(hlsIn.request)

AudioInputs == SelectSeq(hlsIn.mpd_dict.profiles, LAMBDA p : HasAudio(p.mimeType))
VideoInputs == SelectSeq(hlsIn.mpd_dict.profiles, LAMBDA p : HasVideo(p.mimeType))

\* the records of the answer repeat the profiles, one for one and in order
SameProfiles(records, profiles) ==
    /\ Len(records) = Len(profiles)
    /\ \A i \in DOMAIN records :
          records[i].id = profiles[i].id /\ records[i].n = profiles[i].bandwidth

\* C17: the master manifest has one record for every audio and every video
\* profile, in input order, audio before video, the first audio record alone
\* being the default
C17_OneRecordPerProfile ==
    hlsOut.op = "manifest"
        => /\ SameProfiles(LinesWith("MEDIA"), AudioInputs)
           /\ SameProfiles(LinesWith("STREAM-INF"), VideoInputs)
           /\ \A i \in DOMAIN LinesWith("MEDIA") : LinesWith("MEDIA")[i].flag = (i = 1)
           /\ \A i, j \in DOMAIN hlsOut.result.lines :
                 (hlsOut.result.lines[i].tag = "MEDIA"
                    /\ hlsOut.result.lines[j].tag = "STREAM-INF") => i < j

\* the finite numeric extinf values of the segments, in thousandths
FiniteExtinf(segments) ==
    {segments[i].extinf.milli : i \in {j \in DOMAIN segments : segments[j].extinf.kind = "num"}}

\* C18: the playlist is built for every segment list, and its target duration
\* is the ceiling of the largest finite extinf of the first profile, 5 when
\* there is none
C18_TargetDuration ==
    (PlaylistBuilt /\ Selected[1].segments # <<>>)
        => /\ hlsOut.result.kind = "ok"
           /\ LET finite == FiniteExtinf(Selected[1].segments)
              IN LinesWith("TARGETDURATION")[1].n =
                    IF finite = {} THEN DefaultTargetDuration
                    ELSE Ceil(CHOOSE m \in finite : \A x \in finite : x <= m)

\* C19: the media sequence of the playlist is hls_media_sequence_num of the
\* first segment of the first profile, else its number, else 0
C19_MediaSequence ==
    (PlaylistBuilt /\ hlsOut.result.kind = "ok" /\ Selected[1].segments # <<>>)
        => LET first == Selected[1].segments[1]
           IN /\ Len(LinesWith("MEDIA-SEQUENCE")) = 1
              /\ LinesWith("MEDIA-SEQUENCE")[1].n =
                    IF first.hls_media_sequence_num # Absent
                    THEN first.hls_media_sequence_num
                    ELSE IF first.number # Absent THEN first.number ELSE 0

\* a playlist whose first segment has a number and no hls_media_sequence_num
C19_Witness ==
    /\ PlaylistBuilt
    /\ hlsOut.result.kind = "ok"
    /\ Selected[1].segments # <<>>
    /\ Selected[1].segments[1].hls_media_sequence_num = Absent
    /\ Selected[1].segments[1].number = 3
    /\ LinesWith("MEDIA-SEQUENCE")[1].n = 3

\* the TTL the manifest's minimumUpdatePeriod asks for
TtlOfManifest(manifest) ==
    IF ~Mup(manifest).present THEN 3600
    ELSE IF Mup(manifest).value > 0 THEN Mup(manifest).value ELSE 1

\* C12: get_cached_mpd stores the manifest to expire TTL seconds after the
\* store, TTL being mup when mup > 0, 1 when mup <= 0 and 3600 without mup;
\* a lookup that finds the entry is a hit before that time and a miss from
\* that time on
C12_TtlFromMup ==
    /\ event.why = "mpd_stored"
          => /\ event.exp = now + TtlOfManifest(event.ret.data.text)
             /\ event.key \in KeysOf(cache)
             /\ EntryOf(cache, event.key).expires_at = event.exp
             /\ JsonLoads(EntryOf(cache, event.key).data).text = event.ret.data.text
    /\ (event.op = "mpd" /\ event.from = "idle" /\ event.seen)
          => (event.why \in {"mpd_hit", "mpd_refetch"} <=> now < event.exp)

\* a lookup at the very time the stored manifest expires has missed
C12_Witness ==
    /\ event.op = "mpd"
    /\ event.why = "mpd_miss"
    /\ event.seen
    /\ event.exp = now
    /\ now > 0

\* C13: once a call has downloaded and returned bytes B for the URL, a call
\* made before the entry expires, with no other write on the URL, does not go
\* to the downloader and returns B
C13_SecondCallServed ==
    (event.seen /\ settled[event.key].ok /\ now < settled[event.key].exp)
        => /\ event.why # "seg_miss"
           /\ (event.op = "get" /\ event.ret.kind = "data")
                 => event.ret.data = settled[event.key].data

\* C14: when the downloader fails, the facade raises the error to its caller
\* and caches nothing
C14_DownloadErrorPropagates ==
    [][event'.why = "download_error"
          => /\ event'.ret = RetRaised
             /\ cache' = cache
             /\ dir' = dir
             /\ inodes' = inodes]_vars

\* C24: in every reachable state of the store the tracked counter
\* _current_size is the sum of the sizes of the entries held, and so never
\* negative
C24_CounterIsSum == current_size = SumSizes(cache) /\ current_size >= 0

\* C23: a completed set with a fresh TTL is not undone by a concurrent get:
\* when a get that read the expired metadata of the previous file returns
\* from its expiry branch while the value of a completed, undisturbed set on
\* the same key is still fresh, that value is still in the memory tier and
\* its complete frame is still the final file
C23_SetNotUndoneByGet ==
    (/\ event.op = "get"
     /\ event.why = "expired"
     /\ event.exp < now
     /\ settled[event.key].ok
     /\ now < settled[event.key].exp)
    => LET K == event.key
           path == FilePath(Md5(K))
       IN /\ Md5(K) \in KeysOf(cache)
          /\ EntryOf(cache, Md5(K)).data = settled[K].data
          /\ dir[path] # NoInode
          /\ IsCompleteFrame(inodes[dir[path]])

\* C22: get_cached_mpd goes to the downloader only when the lookup found no
\* fresh entry for the URL or when processing the cached entry raised, and
\* then the key has been deleted first; a fresh entry that processes is
\* returned without a download; every successful fetch caches the raw
\* parser output of the text it downloaded and returns the processed one
C22_DownloadOnlyWhenNeeded ==
    [][/\ \A t \in Tasks :
             (task[t].pc = "idle" /\ task'[t].pc = "mpd_download")
                => (Found(cache, task'[t].key, now) = "fresh"
                       => /\ event'.why = "mpd_refetch"
                          /\ task'[t].key \notin KeysOf(cache'))
       /\ event'.why = "mpd_hit"
             => /\ Found(cache, event'.key, now) = "fresh"
                /\ task' = task
       /\ event'.why = "mpd_stored"
             => /\ event'.ret.data.kind = "processed"
                /\ event'.key \in KeysOf(cache')
                /\ JsonLoads(EntryOf(cache', event'.key).data)
                      = [kind |-> "raw", text |-> event'.ret.data.text]]_vars

\* a call found a fresh entry it could not process, has deleted the key and
\* waits for the downloader
C22_Witness ==
    /\ event.why = "mpd_refetch"
    /\ event.seen
    /\ now < event.exp
    /\ event.key \notin KeysOf(cache)
    /\ task[event.t].pc = "mpd_download"

\* C21: when a set returns through its except clause, because a write or the
\* rename failed, it returns False, its tmp path is gone, and the final file
\* of the key is as it was when the call began, unless another call has
\* meanwhile removed it or replaced it by its own complete frame
C21_FailedSetLeavesFinal ==
    [][(event'.op = "set" /\ event'.why = "failed")
          => LET t == event'.t
                 final == FilePath(task[t].hkey)
                 after == FileAt(dir', inodes', final)
             IN /\ event'.ret = RetFalse
                /\ dir'[WithSuffixTmp(final)] = NoInode
                /\ \/ after = task[t].prior
                   \/ ~after.present
                   \/ /\ IsCompleteFrame(after.content)
                      /\ after.content[1].w # t]_vars


====
